---- MODULE Spec2Model ----
(***************************************************************************)
(* Model of shopify_python's pylint checkers.                              *)
(*                                                                         *)
(*  - ShopifyStyleGuideChecker.process_tokens (shopify_styleguide.py):     *)
(*    the token checker that reports `# pylint: disable=W0611`-style       *)
(*    directives naming a message by code.  Text is modelled as a sequence *)
(*    of one-character strings so that the two regular expressions, split  *)
(*    and strip are computed character by character.                       *)
(*  - GoogleStyleGuideChecker (google_styleguide.py, exercised by          *)
(*    tests/shopify_python/test_google_styleguide.py): the import and      *)
(*    class-definition rules, driven by the host's tree walk.              *)
(***************************************************************************)
EXTENDS Naturals, Sequences, FiniteSets

VARIABLES
    tokens,     \* the token stream handed to process_tokens
    pos,        \* index of the token the for-loop of process_tokens reaches next
    messages,   \* the linter's store: the add_message calls of this invocation
    raised,     \* an exception escaped the invocation
    checker,    \* the checker instance's attributes (name, msgs)
    lines,      \* history: the physical lines the token stream was lexed from
    firstRun,   \* history: tokens and messages of the first finished invocation
    module,     \* the syntax tree handed to the tree walker
    todo        \* the tree walker's stack of nodes still to visit

vars == <<tokens, pos, messages, raised, checker, lines, firstRun, module, todo>>

(***************************************************************************)
(* Characters                                                              *)
(***************************************************************************)
Upper ==
    {"A", "B", "C", "D", "E", "F", "G", "H", "I", "J", "K", "L", "M",
     "N", "O", "P", "Q", "R", "S", "T", "U", "V", "W", "X", "Y", "Z"}

Lower ==
    {"a", "b", "c", "d", "e", "f", "g", "h", "i", "j", "k", "l", "m",
     "n", "o", "p", "q", "r", "s", "t", "u", "v", "w", "x", "y", "z"}

Digit == {"0", "1", "2", "3", "4", "5", "6", "7", "8", "9"}

\* [ \t] in RE_PYLINT_DISABLE
BlankClass == {" ", "\t"}

\* [a-zA-Z0-9\-_, \t] in RE_PYLINT_DISABLE
MessagesClass == Upper \cup Lower \cup Digit \cup {"-", "_", ",", " ", "\t"}

\* the characters str.strip() removes (those of them TLA+ can write)
Whitespace == {" ", "\t", "\n", "\r", "\f"}

(***************************************************************************)
(* Regular-expression helpers                                              *)
(***************************************************************************)
\* the literal lit occurs in s at index i
LiteralAt(s, i, lit) ==
    /\ i + Len(lit) - 1 <= Len(s)
    /\ SubSeq(s, i, i + Len(lit) - 1) = lit

\* the index after a greedy [ \t]* started at i
RECURSIVE SkipBlanks(_, _)
SkipBlanks(s, i) ==
    IF i <= Len(s) /\ s[i] \in BlankClass THEN SkipBlanks(s, i + 1) ELSE i

\* where `$` matches: at the end of the string, or just before a final newline
DollarEnd(s) ==
    IF Len(s) > 0 /\ s[Len(s)] = "\n" THEN {Len(s) - 1, Len(s)} ELSE {Len(s)}

AllIn(s, from, to, class) == \A k \in from..to : s[k] \in class

NoMatch == [matched |-> FALSE, messages |-> <<>>]

\* variant: the pattern without its closing `$`
RE_PYLINT_DISABLE_NoAnchor(string) ==
    LET i2 == SkipBlanks(string, 2)
        i4 == SkipBlanks(string, i2 + 7)
        i5 == IF LiteralAt(string, i4, <<"d", "i", "s", "a", "b", "l", "e">>) THEN i4 + 7
              ELSE IF LiteralAt(string, i4, <<"e", "n", "a", "b", "l", "e">>) THEN i4 + 6
              ELSE 0
        i6 == SkipBlanks(string, i5)
        RECURSIVE Run(_)
        Run(k) == IF k <= Len(string) /\ string[k] \in MessagesClass THEN Run(k + 1) ELSE k
        last == Run(i6 + 1) - 1
    IN  IF /\ LiteralAt(string, 1, <<"#">>)
           /\ LiteralAt(string, i2, <<"p", "y", "l", "i", "n", "t", ":">>)
           /\ i5 > 0
           /\ LiteralAt(string, i6, <<"=">>)
           /\ last >= i6 + 1
        THEN [matched |-> TRUE, messages |-> SubSeq(string, i6 + 1, last)]
        ELSE NoMatch

\* RE_PYLINT_DISABLE.match(string): the `messages` group when it matches
RE_PYLINT_DISABLE(string) ==
    LET i2 == SkipBlanks(string, 2)
        i4 == SkipBlanks(string, i2 + 7)
        i5 == IF LiteralAt(string, i4, <<"d", "i", "s", "a", "b", "l", "e">>) THEN i4 + 7
              ELSE IF LiteralAt(string, i4, <<"e", "n", "a", "b", "l", "e">>) THEN i4 + 6
              ELSE 0
        i6 == SkipBlanks(string, i5)
        \* [..]+ is greedy and no character of the class can follow it, so the
        \* group ends at the one place `$` accepts, if every character up to
        \* there is in the class
        ends == {e \in DollarEnd(string) : e >= i6 + 1 /\ AllIn(string, i6 + 1, e, MessagesClass)}
    IN  IF /\ LiteralAt(string, 1, <<"#">>)
           /\ LiteralAt(string, i2, <<"p", "y", "l", "i", "n", "t", ":">>)
           /\ i5 > 0
           /\ LiteralAt(string, i6, <<"=">>)
           /\ ends # {}
        THEN [matched |-> TRUE,
              messages |-> SubSeq(string, i6 + 1, CHOOSE e \in ends : \A f \in ends : f <= e)]
        ELSE NoMatch

\* variant: the pattern without its closing `$`
RE_PYLINT_MESSAGE_CODE_NoAnchor(msg) ==
    \E k \in {1, 2} :
        /\ Len(msg) >= k + 4
        /\ AllIn(msg, 1, k, Upper)
        /\ AllIn(msg, k + 1, k + 4, Digit)

\* RE_PYLINT_MESSAGE_CODE.match(msg) is not None
RE_PYLINT_MESSAGE_CODE(msg) ==
    \E k \in {1, 2} :
        /\ k + 4 \in DollarEnd(msg)
        /\ AllIn(msg, 1, k, Upper)
        /\ AllIn(msg, k + 1, k + 4, Digit)

(***************************************************************************)
(* str.split(',') and str.strip()                                          *)
(***************************************************************************)
RECURSIVE SplitFrom(_, _, _)
SplitFrom(s, i, cur) ==
    IF i > Len(s) THEN <<cur>>
    ELSE IF s[i] = "," THEN <<cur>> \o SplitFrom(s, i + 1, <<>>)
    ELSE SplitFrom(s, i + 1, Append(cur, s[i]))

split(s) == SplitFrom(s, 1, <<>>)

RECURSIVE lstrip(_)
lstrip(s) == IF s # <<>> /\ Head(s) \in Whitespace THEN lstrip(Tail(s)) ELSE s

RECURSIVE rstrip(_)
rstrip(s) ==
    IF s # <<>> /\ s[Len(s)] \in Whitespace THEN rstrip(SubSeq(s, 1, Len(s) - 1)) ELSE s

strip(s) == rstrip(lstrip(s))

(***************************************************************************)
(* ShopifyStyleGuideChecker                                                *)
(***************************************************************************)
COMMENT == "COMMENT"

KeyCode == <<"c", "o", "d", "e">>

\* msgs: message id -> (template, symbol); the description is of no effect
Msgs ==
    [id \in {"C2801"} |->
        [template |-> <<"%", "(", "c", "o", "d", "e", ")", "s", " ", "d", "i", "s",
                        "a", "b", "l", "e", "d", " ", "a", "s", " ", "a", " ", "m",
                        "e", "s", "s", "a", "g", "e", " ", "c", "o", "d", "e">>,
         symbol |-> "disable-name-only"]]

CheckerInit == [name |-> "shopify-styleguide-checker", msgs |-> Msgs]

\* variant: the column taken for the row
StartRow_Column(start) == start[2]

\* start_row, _ = start
StartRow(start) == start[1]

\* variant: no test of the token kind
IsComment_Any(type) == TRUE

\* _type == tokenize.COMMENT
IsComment(type) == type = COMMENT

\* variant: an argument key the template does not name
CodeArgs_WrongKey(msg) == [k \in {<<"m", "s", "g">>} |-> msg]

\* args={'code': msg}
CodeArgs(msg) == [k \in {KeyCode} |-> msg]

\* self.add_message(symbol, line=.., args=..): the host stores the message of a
\* symbol the checker registered, and raises for one it did not
add_message(st, self, symbol, line, args) ==
    IF \E id \in DOMAIN self.msgs : self.msgs[id].symbol = symbol
    THEN [st EXCEPT !.messages = Append(@, [msg_id |-> symbol, line |-> line, args |-> args])]
    ELSE [st EXCEPT !.raised = TRUE]

\* variant: the list walked from its end
RECURSIVE ReportCodes_Reversed(_, _, _, _)
ReportCodes_Reversed(st, self, parts, start_row) ==
    IF parts = <<>> \/ st.raised THEN st
    ELSE LET msg == strip(parts[Len(parts)])
             st1 == IF RE_PYLINT_MESSAGE_CODE(msg)
                    THEN add_message(st, self, "disable-name-only", start_row, CodeArgs(msg))
                    ELSE st
         IN  ReportCodes_Reversed(st1, self, SubSeq(parts, 1, Len(parts) - 1), start_row)

\* for msg in matches.group('messages').split(','): ...
RECURSIVE ReportCodes(_, _, _, _)
ReportCodes(st, self, parts, start_row) ==
    IF parts = <<>> \/ st.raised THEN st
    ELSE LET msg == strip(Head(parts))
             st1 == IF RE_PYLINT_MESSAGE_CODE(msg)
                    THEN add_message(st, self, "disable-name-only", start_row, CodeArgs(msg))
                    ELSE st
         IN  ReportCodes(st1, self, Tail(parts), start_row)

\* the body of the for-loop of process_tokens, for one token
ProcessOne(st, self, tok) ==
    LET start_row == StartRow(tok.start)
        matches == RE_PYLINT_DISABLE(tok.string)
    IN  IF IsComment(tok.type) /\ matches.matched
        THEN ReportCodes(st, self, split(matches.messages), start_row)
        ELSE st

\* variant: the registry emptied once a directive was seen
SelfAfter_Unregister(self, tok) ==
    IF IsComment(tok.type) /\ RE_PYLINT_DISABLE(tok.string).matched
    THEN [self EXCEPT !.msgs = [id \in {} |-> {}]]
    ELSE self

\* process_tokens assigns no attribute of the checker
SelfAfter(self, tok) == self

(***************************************************************************)
(* Token streams: the lexer's tokens of a few physical lines               *)
(***************************************************************************)
MaxLines == 3
MaxEntries == 3

HeadPlain == <<"#", " ", "p", "y", "l", "i", "n", "t", ":", " ", "d", "i", "s", "a", "b", "l", "e", "=">>
HeadTabs == <<"#", "\t", "p", "y", "l", "i", "n", "t", ":", "e", "n", "a", "b", "l", "e", "\t", "=">>
HeadCase == <<"#", " ", "p", "y", "l", "i", "n", "t", ":", " ", "D", "i", "s", "a", "b", "l", "e", "=">>
HeadNext ==
    <<"#", " ", "p", "y", "l", "i", "n", "t", ":", " ", "d", "i", "s", "a", "b", "l", "e",
      "-", "n", "e", "x", "t", "=">>

IdW0611 == <<"W", "0", "6", "1", "1">>
IdAB1234 == <<"A", "B", "1", "2", "3", "4">>
IdUnusedImport == <<"u", "n", "u", "s", "e", "d", "-", "i", "m", "p", "o", "r", "t">>
IdLower == <<"w", "0", "6", "1", "1">>
IdThreeLetters == <<"A", "B", "C", "1", "2", "3", "4">>
IdThreeDigits == <<"W", "0", "6", "1">>
IdFiveDigits == <<"W", "0", "6", "1", "1", "1">>
IdEmpty == <<>>

Ids ==
    {IdW0611, IdAB1234, IdUnusedImport, IdLower, IdThreeLetters, IdThreeDigits,
     IdFiveDigits, IdEmpty}

Bare(id) == [id |-> id, padded |-> FALSE]
Padded(id) == [id |-> id, padded |-> TRUE]

EntryText(e) == IF e.padded THEN <<" ">> \o e.id \o <<"\t">> ELSE e.id

RECURSIVE JoinEntries(_)
JoinEntries(es) ==
    IF es = <<>> THEN <<>>
    ELSE IF Len(es) = 1 THEN EntryText(es[1])
    ELSE EntryText(es[1]) \o <<",">> \o JoinEntries(Tail(es))

\* the text of a line's directive: head, comma-separated entries, tail
DirectiveText(ln) == ln.head \o JoinEntries(ln.entries) \o ln.tail

Token(type, string, row, col) ==
    [type |-> type, string |-> string, start |-> <<row, col>>,
     end |-> <<row, col + Len(string)>>]

\* the tokens tokenize yields for one physical line, at row `row`:
\*   comment       `# pylint: ...`
\*   code_comment  `x  # pylint: ...`
\*   fstring       `f"# pylint: ..."`  (the text is an FSTRING_MIDDLE token)
LineTokens(ln, row) ==
    LET text == DirectiveText(ln)
        n == Len(text)
    IN  CASE ln.kind = "comment" ->
                <<Token(COMMENT, text, row, 0), Token("NL", <<"\n">>, row, n)>>
          [] ln.kind = "code_comment" ->
                <<Token("NAME", <<"x">>, row, 0), Token(COMMENT, text, row, 3),
                  Token("NEWLINE", <<"\n">>, row, n + 3)>>
          [] ln.kind = "fstring" ->
                <<Token("FSTRING_START", <<"f", "\"">>, row, 0),
                  Token("FSTRING_MIDDLE", text, row, 2),
                  Token("FSTRING_END", <<"\"">>, row, n + 2),
                  Token("NEWLINE", <<"\n">>, row, n + 3)>>

RECURSIVE LexFrom(_, _)
LexFrom(ls, row) ==
    IF row > Len(ls) THEN <<>> ELSE LineTokens(ls[row], row) \o LexFrom(ls, row + 1)

Lex(ls) == LexFrom(ls, 1)

Line(kind, head, entries, tail) ==
    [kind |-> kind, head |-> head, entries |-> entries, tail |-> tail]

StreamLines ==
    {Line("comment", HeadPlain, <<Bare(IdW0611)>>, <<>>),
     Line("comment", HeadTabs, <<Bare(IdUnusedImport), Padded(IdAB1234), Bare(IdW0611)>>, <<>>),
     Line("comment", HeadPlain, <<Bare(IdW0611), Bare(IdW0611)>>, <<>>),
     Line("comment", HeadPlain, <<Bare(IdUnusedImport)>>, <<>>),
     Line("comment", HeadCase, <<Bare(IdW0611)>>, <<>>),
     Line("comment", HeadNext, <<Bare(IdW0611)>>, <<>>),
     Line("comment", HeadPlain, <<Bare(IdW0611)>>, <<"!">>),
     Line("comment", HeadPlain, <<Bare(IdEmpty)>>, <<>>),
     Line("code_comment", HeadPlain, <<Bare(IdAB1234)>>, <<>>),
     Line("fstring", HeadPlain, <<Bare(IdW0611)>>, <<>>)}

RunLines ==
    {Line("comment", HeadPlain, <<Bare(IdW0611)>>, <<>>),
     Line("comment", HeadTabs, <<Bare(IdUnusedImport), Padded(IdAB1234), Bare(IdW0611)>>, <<>>),
     Line("comment", HeadCase, <<Bare(IdW0611)>>, <<>>)}

EntryPool ==
    {Bare(id) : id \in Ids} \cup {Padded(IdW0611), Padded(IdUnusedImport), Padded(IdEmpty)}

SeqsUpTo(S, n) == UNION {[1..k -> S] : k \in 0..n}

ListLines ==
    {Line("comment", head, es, <<>>) :
        head \in {HeadPlain, HeadTabs}, es \in SeqsUpTo(EntryPool, MaxEntries) \ {<<>>}}

(***************************************************************************)
(* The token checker's state machine                                       *)
(***************************************************************************)
StyleIdle == module = <<>> /\ todo = <<>>

InitOn(ls) ==
    /\ lines = ls
    /\ tokens = Lex(ls)
    /\ pos = 1
    /\ messages = <<>>
    /\ raised = FALSE
    /\ checker = CheckerInit
    /\ firstRun = <<>>
    /\ StyleIdle

\* a file of up to MaxLines lines
Init == \E ls \in SeqsUpTo(StreamLines, MaxLines) : InitOn(ls)

\* a file of one directive comment with up to MaxEntries entries
InitList == \E ln \in ListLines : InitOn(<<ln>>)

InitRuns == \E ls \in SeqsUpTo(RunLines, MaxLines) : InitOn(ls)

\* one iteration of `for _type, string, start, _, _ in tokens`
ProcessToken ==
    /\ pos <= Len(tokens)
    /\ ~raised
    /\ LET st == ProcessOne([messages |-> messages, raised |-> FALSE], checker, tokens[pos])
       IN  /\ messages' = st.messages
           /\ raised' = st.raised
    /\ checker' = SelfAfter(checker, tokens[pos])
    /\ pos' = pos + 1
    /\ UNCHANGED <<tokens, lines, firstRun, module, todo>>

\* the host hands the same checker instance the next file (possibly the same
\* one again), having collected the finished invocation's messages
NewInvocation ==
    /\ pos > Len(tokens)
    /\ ~raised
    /\ \E ls \in SeqsUpTo(RunLines, MaxLines) :
        /\ lines' = ls
        /\ tokens' = Lex(ls)
        /\ firstRun' =
            IF firstRun = <<>>
            THEN <<[tokens |-> tokens, messages |-> messages, others |-> FALSE]>>
            ELSE <<[firstRun[1] EXCEPT !.others = @ \/ tokens # firstRun[1].tokens]>>
    /\ pos' = 1
    /\ messages' = <<>>
    /\ UNCHANGED <<raised, checker, module, todo>>

Next == ProcessToken

NextRuns == ProcessToken \/ NewInvocation

Spec == Init /\ [][Next]_vars

SpecList == InitList /\ [][Next]_vars

SpecRuns == InitRuns /\ [][NextRuns]_vars

(***************************************************************************)
(* Properties of the token checker                                         *)
(***************************************************************************)
\* an opaque message code: 1 or 2 uppercase letters, then exactly 4 digits
IsOpaqueCode(id) ==
    \E k \in {1, 2} :
        /\ Len(id) = k + 4
        /\ \A i \in 1..k : id[i] \in Upper
        /\ \A i \in (k + 1)..(k + 4) : id[i] \in Digit

\* the line is a suppression directive: keyword disable/enable, a non-empty
\* list, nothing after the list
WellFormed(ln) ==
    /\ ln.head \in {HeadPlain, HeadTabs}
    /\ ln.tail = <<>>
    /\ JoinEntries(ln.entries) # <<>>

IsCommentLine(ln) == ln.kind \in {"comment", "code_comment"}

EntryIds(ln) == [i \in 1..Len(ln.entries) |-> ln.entries[i].id]

\* the offending entries of a line's list, in list order
Offending(ln) == SelectSeq(EntryIds(ln), IsOpaqueCode)

\* what the line's directive must be reported for
Expected(ln) == IF IsCommentLine(ln) /\ WellFormed(ln) THEN Offending(ln) ELSE <<>>

\* the token that carries the directive text of line r
TextIndex(r) ==
    CHOOSE t \in 1..Len(tokens) :
        tokens[t].start[1] = r /\ tokens[t].type \in {COMMENT, "FSTRING_MIDDLE"}

\* the loop has gone past the directive of line r
Processed(r) == TextIndex(r) < pos

Rows == 1..Len(lines)

MessagesOn(r) == SelectSeq(messages, LAMBDA m : m.line = r)

Codes(ms) == [i \in 1..Len(ms) |-> ms[i].args[KeyCode]]

\* the keys %(key)s a message template refers to
TemplateKeys(t) ==
    {SubSeq(t, i + 2, j - 1) : <<i, j>> \in
        {p \in (1..Len(t)) \X (1..Len(t)) :
            /\ p[1] + 1 < p[2]
            /\ t[p[1]] = "%" /\ t[p[1] + 1] = "("
            /\ t[p[2]] = ")"
            /\ \A k \in (p[1] + 2)..(p[2] - 1) : t[k] # ")"}}

\* C1: for a comment that is a disable/enable directive, the diagnostics are
\* those of exactly the trimmed entries made of 1 or 2 uppercase letters and
\* exactly 4 digits, one per offending entry, in list order; no other entry
\* (symbolic, lowercase, 3-letter, 3- or 5-digit, empty) is reported.
C1_OpaqueCodesExactly ==
    Processed(1) =>
        /\ Codes(messages) = Offending(lines[1])
        /\ \A i \in 1..Len(messages) : messages[i].msg_id = "disable-name-only"

C1_Witness ==
    /\ Processed(1)
    /\ Len(lines[1].entries) = 3
    /\ lines[1].entries[1].padded
    /\ ~IsOpaqueCode(lines[1].entries[2].id)
    /\ Len(messages) = 2
    /\ messages[1].args[KeyCode] # messages[2].args[KeyCode]

\* C2: every diagnostic carries the start row of the comment token that holds
\* the offending code, and that code, trimmed, as 'code'; each offending
\* entry of a comment (a repeated code too) has a diagnostic of its own, all
\* on the comment's row.
C2_LineAndCode ==
    /\ \A i \in 1..Len(messages) :
        \E t \in 1..(pos - 1) :
            /\ tokens[t].type = COMMENT
            /\ messages[i].line = tokens[t].start[1]
            /\ \E k \in 1..Len(lines[messages[i].line].entries) :
                /\ lines[messages[i].line].entries[k].id = messages[i].args[KeyCode]
                /\ IsOpaqueCode(messages[i].args[KeyCode])
    /\ \A r \in Rows :
        Processed(r) => Len(MessagesOn(r)) = Len(Expected(lines[r]))

C2_Witness ==
    \E r \in Rows :
        /\ Processed(r)
        /\ r > 1
        /\ Len(MessagesOn(r)) = 2
        /\ MessagesOn(r)[1] = MessagesOn(r)[2]

\* C3: diagnostics come in source order: those of an earlier comment before
\* those of a later one, and within a comment in the order of its list.
C3_SourceOrder ==
    /\ \A i, j \in 1..Len(messages) : i < j => messages[i].line <= messages[j].line
    /\ \A r \in Rows : Processed(r) => Codes(MessagesOn(r)) = Expected(lines[r])

C3_Witness ==
    /\ Len(messages) >= 3
    /\ messages[1].line = messages[2].line
    /\ messages[1].args[KeyCode] # messages[2].args[KeyCode]
    /\ messages[2].line < messages[3].line

\* C4: a comment that is not a directive as a whole (keyword in another case,
\* another directive, text after the list, an empty list) is skipped without a
\* diagnostic and without an error, though it holds an opaque code, and the
\* tokens after it are processed all the same (no exception ends the loop,
\* and the directives after it are reported in full).
C4_MalformedSkipped ==
    /\ ~raised
    /\ \A r \in Rows :
        (Processed(r) /\ ~WellFormed(lines[r])) =>
            /\ MessagesOn(r) = <<>>
            /\ \A q \in Rows :
                (q > r /\ Processed(q)) => Codes(MessagesOn(q)) = Expected(lines[q])

C4_Witness ==
    \E r, q \in Rows :
        /\ r < q
        /\ IsCommentLine(lines[r]) /\ ~WellFormed(lines[r])
        /\ lines[r].tail # <<>>
        /\ Processed(q)
        /\ MessagesOn(r) = <<>>
        /\ MessagesOn(q) # <<>>

\* C5: every diagnostic names a rule of the checker's registry, and its
\* arguments hold every key the rule's template refers to.
C5_RegisteredWithArgs ==
    \A i \in 1..Len(messages) :
        \E id \in DOMAIN checker.msgs :
            /\ checker.msgs[id].symbol = messages[i].msg_id
            /\ TemplateKeys(checker.msgs[id].template) # {}
            /\ TemplateKeys(checker.msgs[id].template) \subseteq DOMAIN messages[i].args

C5_Witness ==
    /\ Len(messages) = 2
    /\ TemplateKeys(checker.msgs["C2801"].template) = {KeyCode}

RECURSIVE ExpectedUpTo(_)
ExpectedUpTo(r) ==
    IF r = 0 THEN 0
    ELSE ExpectedUpTo(r - 1) + (IF Processed(r) THEN Len(Expected(lines[r])) ELSE 0)

\* C10: only COMMENT tokens are reported: a token of another kind with the
\* text of a directive that names an opaque code yields nothing, and the
\* diagnostics are as many as the offending entries of the directive comments
\* gone past.
C10_CommentsOnly ==
    /\ \A r \in Rows :
        (Processed(r) /\ ~IsCommentLine(lines[r])) => MessagesOn(r) = <<>>
    /\ Len(messages) = ExpectedUpTo(Len(lines))

C10_Witness ==
    \E r \in Rows :
        /\ Processed(r)
        /\ lines[r].kind = "fstring"
        /\ WellFormed(lines[r])
        /\ Offending(lines[r]) # <<>>
        /\ RE_PYLINT_DISABLE(tokens[TextIndex(r)].string).matched
        /\ messages # <<>>

(***************************************************************************)
(* GoogleStyleGuideChecker: import and class-definition rules              *)
(*                                                                         *)
(* A module is its body, a sequence of statement nodes; a node is named by *)
(* its path, the indices leading to it from the module body.               *)
(***************************************************************************)
MaxImported == 3
MaxClasses == 3

KeyModule == <<"m", "o", "d", "u", "l", "e">>
KeyExample == <<"e", "x", "a", "m", "p", "l", "e">>

PackageModule == <<"p", "a", "c", "k", "a", "g", "e", ".", "m", "o", "d", "u", "l", "e">>
NameString == <<"s", "t", "r", "i", "n", "g">>
NameOs == <<"o", "s">>
NameOtherModule == <<"o", "t", "h", "e", "r", "_", "m", "o", "d", "u", "l", "e">>
NameF == <<"F">>
NameOuterClass == <<"O", "u", "t", "e", "r", "C", "l", "a", "s", "s">>
NameInnerClass == <<"I", "n", "n", "e", "r", "C", "l", "a", "s", "s">>
NameObject == <<"o", "b", "j", "e", "c", "t">>
NameParentClass == <<"P", "a", "r", "e", "n", "t", "C", "l", "a", "s", "s">>

\* an imported item (name, asname); asname <<>> stands for None
Item(name, asname) == [name |-> name, asname |-> asname]

\* the name an imported item binds in the importing scope
BoundName(item) == IF item.asname = <<>> THEN item.name ELSE item.asname

ItemPool == {Item(NameString, <<>>), Item(NameOs, <<>>), Item(NameOtherModule, NameF)}

\* `import a, b` / `from package.module import a` / `from . import a` /
\* `from .. import a`
ImportHeads ==
    {[kind |-> "Import", modname |-> <<>>, level |-> 0],
     [kind |-> "ImportFrom", modname |-> PackageModule, level |-> 0],
     [kind |-> "ImportFrom", modname |-> <<>>, level |-> 1],
     [kind |-> "ImportFrom", modname |-> <<>>, level |-> 2]}

ImportNode(h, names) ==
    [kind |-> h.kind, modname |-> h.modname, level |-> h.level, names |-> names]

ClassDef(name, bases, body) ==
    [kind |-> "ClassDef", name |-> name, bases |-> bases, body |-> body]

\* module bodies of import statements importing n names in all
RECURSIVE ImportBodies(_)
ImportBodies(n) ==
    IF n = 0 THEN {<<>>}
    ELSE UNION {{<<ImportNode(h, names)>> \o rest :
                    h \in ImportHeads, names \in [1..k -> ItemPool],
                    rest \in ImportBodies(n - k)} : k \in 1..n}

\* module bodies of n class definitions in all, nested or side by side
RECURSIVE ClassBodies(_)
ClassBodies(n) ==
    IF n = 0 THEN {<<>>}
    ELSE UNION {{<<ClassDef(name, bases, body)>> \o rest :
                    name \in {NameOuterClass, NameInnerClass},
                    bases \in {<<>>, <<NameObject>>, <<NameParentClass>>},
                    body \in ClassBodies(k - 1),
                    rest \in ClassBodies(n - k)} : k \in 1..n}

RECURSIVE NodeAt(_, _)
NodeAt(body, path) ==
    IF Len(path) = 1 THEN body[path[1]] ELSE NodeAt(body[path[1]].body, Tail(path))

ChildPaths(path, n) == [i \in 1..n |-> Append(path, i)]

\* '.'.join((node.modname, name)): `from x import y` read as `x.y`
FullName(modname, name) == modname \o <<".">> \o name

\* variant: only a single leading dot counts
IsRelative_OneDot(level) == level = 1

\* the import is relative: node.level counts its leading dots
IsRelative(level) == level >= 1

\* variant: the first item counted too
ExtraItems_All(names) == names

\* the items of a clause beyond the first
ExtraItems(names) == Tail(names)

\* variant: any class that does not name object
IsOldStyle_NoObject(node) == \A i \in 1..Len(node.bases) : node.bases[i] # NameObject

\* the class has no base class
IsOldStyle(node) == node.bases = <<>>

add_node_message(store, symbol, node, args) ==
    Append(store, [msg_id |-> symbol, node |-> node, args |-> args])

\* import-full-path: one message per imported name of a relative import
RECURSIVE ImportFullPath(_, _, _, _)
ImportFullPath(store, path, node, names) ==
    IF names = <<>> \/ ~IsRelative(node.level) THEN store
    ELSE ImportFullPath(
            add_node_message(store, "import-full-path", path,
                             [k \in {KeyModule} |-> FullName(node.modname, Head(names).name)]),
            path, node, Tail(names))

\* multiple-import-items: one message per item beyond the first
RECURSIVE MultipleImportItems(_, _, _, _)
MultipleImportItems(store, path, node, extra) ==
    IF extra = <<>> THEN store
    ELSE MultipleImportItems(
            add_node_message(store, "multiple-import-items",
                             [stmt |-> path, binds |-> BoundName(Head(extra))],
                             [k \in {KeyModule} |-> node.modname]),
            path, node, Tail(extra))

visit_importfrom(store, path, node) ==
    MultipleImportItems(ImportFullPath(store, path, node, node.names),
                        path, node, ExtraItems(node.names))

visit_classdef(store, path, node) ==
    IF IsOldStyle(node)
    THEN add_node_message(store, "base-class-inheritance", path,
                          [k \in {KeyExample} |-> node.name \o <<"(", "o", "b", "j", "e", "c", "t", ")">>])
    ELSE store

TokenIdle ==
    /\ lines = <<>>
    /\ tokens = <<>>
    /\ pos = 1
    /\ raised = FALSE
    /\ checker = CheckerInit
    /\ firstRun = <<>>

\* a module of import statements, or one of class definitions
InitStyle ==
    /\ TokenIdle
    /\ messages = <<>>
    /\ module \in UNION {ImportBodies(n) : n \in 0..MaxImported}
                    \cup UNION {ClassBodies(n) : n \in 0..MaxClasses}
    /\ todo = [i \in 1..Len(module) |-> <<i>>]

\* the host's walk: a node's visit method runs before its children are
\* walked, the children in source order
VisitImport ==
    /\ todo # <<>>
    /\ NodeAt(module, Head(todo)).kind = "Import"
    /\ todo' = Tail(todo)
    /\ UNCHANGED <<messages, module, tokens, pos, raised, checker, lines, firstRun>>

VisitImportFrom ==
    /\ todo # <<>>
    /\ NodeAt(module, Head(todo)).kind = "ImportFrom"
    /\ messages' = visit_importfrom(messages, Head(todo), NodeAt(module, Head(todo)))
    /\ todo' = Tail(todo)
    /\ UNCHANGED <<module, tokens, pos, raised, checker, lines, firstRun>>

VisitClassDef ==
    /\ todo # <<>>
    /\ NodeAt(module, Head(todo)).kind = "ClassDef"
    /\ messages' = visit_classdef(messages, Head(todo), NodeAt(module, Head(todo)))
    /\ todo' = ChildPaths(Head(todo), Len(NodeAt(module, Head(todo)).body)) \o Tail(todo)
    /\ UNCHANGED <<module, tokens, pos, raised, checker, lines, firstRun>>

NextStyle == VisitImport \/ VisitImportFrom \/ VisitClassDef

SpecStyle == InitStyle /\ [][NextStyle]_vars

(***************************************************************************)
(* Properties of the style-guide rules                                     *)
(***************************************************************************)
IsPrefix(q, p) == Len(q) <= Len(p) /\ SubSeq(p, 1, Len(q)) = q

\* the walk has visited the node at path p
Visited(p) == \A i \in 1..Len(todo) : ~IsPrefix(todo[i], p)

RECURSIVE PathsUnder(_, _)
PathsUnder(prefix, body) ==
    UNION {{Append(prefix, i)} \cup
           (IF body[i].kind = "ClassDef"
            THEN PathsUnder(Append(prefix, i), body[i].body) ELSE {})
           : i \in 1..Len(body)}

Paths == PathsUnder(<<>>, module)

MessagesOf(symbol) == SelectSeq(messages, LAMBDA m : m.msg_id = symbol)

\* the leading dots of a relative import
RECURSIVE Dots(_)
Dots(level) == IF level = 0 THEN <<>> ELSE <<".">> \o Dots(level - 1)

\* C7: a visited `from X import ...` clause of N names has N-1
\* multiple-import-items diagnostics, for the names after the first in order,
\* each on that name's binding node with X as 'module'; a clause of one name
\* (aliased or not) and a plain import have none.
C7_OnePerExtraItem ==
    \A p \in Paths :
        (Visited(p) /\ NodeAt(module, p).kind \in {"Import", "ImportFrom"}) =>
            LET node == NodeAt(module, p)
                got == SelectSeq(MessagesOf("multiple-import-items"),
                                 LAMBDA m : m.node.stmt = p)
            IN  IF node.kind = "Import" THEN got = <<>>
                ELSE /\ Len(got) = Len(node.names) - 1
                     /\ \A k \in 1..Len(got) :
                            /\ got[k].node.binds = BoundName(node.names[k + 1])
                            /\ got[k].args = [a \in {KeyModule} |-> node.modname]

C7_Witness ==
    \E p, q \in Paths :
        /\ Visited(p) /\ Visited(q)
        /\ NodeAt(module, p).kind = "ImportFrom"
        /\ NodeAt(module, p).modname = PackageModule
        /\ Len(NodeAt(module, p).names) = 2
        /\ NodeAt(module, p).names[2].asname = NameF
        /\ NodeAt(module, q).kind = "Import"
        /\ Len(MessagesOf("multiple-import-items")) = 1

C9_OldStyleClasses ==
    /\ \A p \in Paths :
        (Visited(p) /\ NodeAt(module, p).kind = "ClassDef") =>
            LET node == NodeAt(module, p)
                got == SelectSeq(MessagesOf("base-class-inheritance"), LAMBDA m : m.node = p)
            IN  IF Len(node.bases) = 0
                THEN got = <<[msg_id |-> "base-class-inheritance", node |-> p,
                              args |-> [a \in {KeyExample} |->
                                  node.name \o <<"(", "o", "b", "j", "e", "c", "t", ")">>]]>>
                ELSE got = <<>>
    /\ LET got == MessagesOf("base-class-inheritance")
       IN  \A i, j \in 1..Len(got) :
               (got[i].node # got[j].node /\ IsPrefix(got[i].node, got[j].node)) => i < j

C9_Witness ==
    \E p, q, r \in Paths :
        /\ Len(p) = 1 /\ Len(q) = 2 /\ IsPrefix(p, q) /\ Len(r) = 2 /\ IsPrefix(p, r)
        /\ Visited(q) /\ Visited(r)
        /\ NodeAt(module, p).kind = "ClassDef"
        /\ NodeAt(module, p).bases = <<>>
        /\ NodeAt(module, q).bases = <<>>
        /\ NodeAt(module, q).name # NodeAt(module, p).name
        /\ NodeAt(module, r).bases = <<NameParentClass>>
        /\ Len(messages) = 2

====
